---- MODULE Spec2Model ----
(***************************************************************************)
(* SSZ serialization and hash-tree-root (eth2spec/utils/ssz/ssz_impl.py).  *)
(*                                                                         *)
(* Python values are represented as follows.                               *)
(*   int    a little-endian sequence of base-65536 limbs without trailing  *)
(*          zero limbs (Python ints are unbounded; TLC integers are not)   *)
(*   bool   a BOOLEAN                                                      *)
(*   bytes  a sequence of bytes; a byte is a pair <<t, i>>: <<<<>>, b>> is *)
(*          the concrete byte b, and <<t, i>> with t # <<>> is byte i of   *)
(*          the digest of the preimage t (the hash is kept symbolic, hence *)
(*          collision-free)                                                *)
(*   list / bytes objects given to the encoder are tagged:                 *)
(*          [isbytes |-> BOOLEAN, xs |-> sequence]                         *)
(*   container objects are the sequence of their field values              *)
(* A call either returns or raises: [err |-> "none", val |-> v] or         *)
(* [err |-> <exception>, val |-> <<>>].                                    *)
(***************************************************************************)
EXTENDS Integers, Sequences, FiniteSets, TLC

VARIABLES op, inp, out, wire, dec

vars == <<op, inp, out, wire, dec>>

Ok(v) == [err |-> "none", val |-> v]

Raise(e) == [err |-> e, val |-> <<>>]

IsOk(r) == r.err = "none"

Max(a, b) == IF a >= b THEN a ELSE b

(***************************************************************************)
(* Python int                                                              *)
(***************************************************************************)
LimbBase == 256 * 256

RECURSIVE BigNorm(_)
BigNorm(s) ==
    IF s = <<>> THEN <<>>
    ELSE IF s[Len(s)] = 0 THEN BigNorm(SubSeq(s, 1, Len(s) - 1))
    ELSE s

RECURSIVE NatToBig(_)
NatToBig(n) ==
    IF n = 0 THEN <<>> ELSE <<n % LimbBase>> \o NatToBig(n \div LimbBase)

Limb(a, i) == IF i <= Len(a) THEN a[i] ELSE 0

RECURSIVE BigAddFrom(_, _, _, _)
BigAddFrom(a, b, i, carry) ==
    IF i > Max(Len(a), Len(b))
    THEN (IF carry = 0 THEN <<>> ELSE <<carry>>)
    ELSE LET s == Limb(a, i) + Limb(b, i) + carry
         IN  <<s % LimbBase>> \o BigAddFrom(a, b, i + 1, s \div LimbBase)

BigAdd(a, b) == BigNorm(BigAddFrom(a, b, 1, 0))

RECURSIVE BigSum(_)
BigSum(s) == IF s = <<>> THEN <<>> ELSE BigAdd(Head(s), BigSum(Tail(s)))

RECURSIVE Sum(_)
Sum(s) == IF s = <<>> THEN 0 ELSE Head(s) + Sum(Tail(s))

RECURSIVE BigLessFrom(_, _, _)
BigLessFrom(a, b, i) ==
    IF i = 0 THEN FALSE
    ELSE IF a[i] # b[i] THEN a[i] < b[i]
    ELSE BigLessFrom(a, b, i - 1)

BigLess(a, b) ==
    IF Len(a) # Len(b) THEN Len(a) < Len(b) ELSE BigLessFrom(a, b, Len(a))

\* 2 ** k for a multiple k of 16
BigPow2(k) == [i \in 1..(k \div 16) |-> 0] \o <<1>>

(***************************************************************************)
(* Python bytes                                                            *)
(***************************************************************************)
Lit(b) == <<<<>>, b>>

LitBytes(s) == [i \in 1..Len(s) |-> Lit(s[i])]

RECURSIVE Join(_)
Join(parts) == IF parts = <<>> THEN <<>> ELSE Head(parts) \o Join(Tail(parts))

\* byte i (from 0) of the little-endian representation of n
ByteOf(n, i) == (Limb(n, (i \div 2) + 1) \div (IF i % 2 = 0 THEN 1 ELSE 256)) % 256

\* int.to_bytes(length, 'little'): OverflowError when n needs more bytes
to_bytes(n, length) ==
    IF \/ 2 * Len(n) <= length
       \/ 2 * Len(n) - 1 <= length /\ n[Len(n)] < 256
    THEN Ok([i \in 1..length |-> Lit(ByteOf(n, i - 1))])
    ELSE Raise("OverflowError")

\* int.from_bytes(bs, 'little')
from_bytes(bs) ==
    LET b(i) == IF i <= Len(bs) THEN bs[i][2] ELSE 0
    IN  BigNorm([j \in 1..((Len(bs) + 1) \div 2) |-> b(2 * j - 1) + 256 * b(2 * j)])

(***************************************************************************)
(* Type descriptors (eth2spec.utils.ssz.ssz_typing): a record              *)
(* [kind, size, sub]; size is the byte width of a uint and the length of a *)
(* vector or BytesN, sub holds the element type or the field types.        *)
(***************************************************************************)
UintType(n) == [kind |-> "uint", size |-> n, sub |-> <<>>]

BoolType == [kind |-> "bool", size |-> 1, sub |-> <<>>]

ListType(e) == [kind |-> "list", size |-> 0, sub |-> <<e>>]

VectorType(e, n) == [kind |-> "vector", size |-> n, sub |-> <<e>>]

BytesType == [kind |-> "bytes", size |-> 0, sub |-> <<UintType(1)>>]

BytesNType(n) == [kind |-> "bytesN", size |-> n, sub |-> <<UintType(1)>>]

ContainerType(fields) == [kind |-> "container", size |-> 0, sub |-> fields]

\* a type outside the taxonomy (str, dict, ...)
OtherType == [kind |-> "other", size |-> 0, sub |-> <<>>]

is_uint_type(typ) == typ.kind = "uint"

is_bool_type(typ) == typ.kind = "bool"

is_container_type(typ) == typ.kind = "container"

is_list_kind(typ) == typ.kind \in {"list", "bytes"}

is_vector_kind(typ) == typ.kind \in {"vector", "bytesN"}

read_elem_type(typ) == typ.sub[1]

read_vector_elem_type(typ) == typ.sub[1]

uint_byte_size(typ) == typ.size

get_field_types(typ) == typ.sub

\* uintN(value): the typed integer, ValueError when out of bounds
uint_new(typ, n) ==
    IF IsOk(to_bytes(n, uint_byte_size(typ))) THEN Ok(n) ELSE Raise("ValueError")

\* a list, vector or container object seen as a Python sequence
PyList(xs) == [isbytes |-> FALSE, xs |-> xs]

PyBytes(bs) == [isbytes |-> TRUE, xs |-> bs]

(***************************************************************************)
(* SSZ Serialization                                                       *)
(***************************************************************************)
BYTES_PER_LENGTH_OFFSET == 4

is_basic_type(typ) == is_uint_type(typ) \/ is_bool_type(typ)

\* serialize_basic writing the most significant byte first
serialize_basic_big_endian(value, typ) ==
    IF is_uint_type(typ)
    THEN LET r == to_bytes(value, uint_byte_size(typ))
         IN  IF IsOk(r) THEN Ok([i \in 1..Len(r.val) |-> r.val[Len(r.val) + 1 - i]])
             ELSE r
    ELSE IF is_bool_type(typ)
    THEN (IF value THEN Ok(<<Lit(1)>>) ELSE Ok(<<Lit(0)>>))
    ELSE Raise("Exception")

serialize_basic(value, typ) ==
    IF is_uint_type(typ) THEN to_bytes(value, uint_byte_size(typ))
    ELSE IF is_bool_type(typ)
    THEN (IF value THEN Ok(<<Lit(1)>>) ELSE Ok(<<Lit(0)>>))
    ELSE Raise("Exception")

\* deserialize_basic without the assertion on the bool byte
deserialize_basic_unchecked(value, typ) ==
    IF is_uint_type(typ) THEN uint_new(typ, from_bytes(value))
    ELSE IF is_bool_type(typ) THEN Ok(value = <<Lit(1)>>)
    ELSE Raise("Exception")

deserialize_basic(value, typ) ==
    IF is_uint_type(typ) THEN uint_new(typ, from_bytes(value))
    ELSE IF is_bool_type(typ)
    THEN (IF value \in {<<Lit(0)>>, <<Lit(1)>>}
          THEN Ok(value = <<Lit(1)>>)
          ELSE Raise("AssertionError"))
    ELSE Raise("Exception")

RECURSIVE is_fixed_size(_)
RECURSIVE all_fixed_size(_, _)
\* all(is_fixed_size(t) for t in types): stops at the first False
all_fixed_size(types, i) ==
    IF i > Len(types) THEN Ok(TRUE)
    ELSE LET r == is_fixed_size(types[i])
         IN  IF ~IsOk(r) THEN r
             ELSE IF ~r.val THEN Ok(FALSE)
             ELSE all_fixed_size(types, i + 1)

\* is_fixed_size taking every vector for variable-size
is_fixed_size_vector_variable(typ) ==
    IF is_basic_type(typ) THEN Ok(TRUE)
    ELSE IF is_list_kind(typ) \/ is_vector_kind(typ) THEN Ok(FALSE)
    ELSE IF is_container_type(typ) THEN all_fixed_size(get_field_types(typ), 1)
    ELSE Raise("Exception")

is_fixed_size(typ) ==
    IF is_basic_type(typ) THEN Ok(TRUE)
    ELSE IF is_list_kind(typ) THEN Ok(FALSE)
    ELSE IF is_vector_kind(typ) THEN is_fixed_size(read_vector_elem_type(typ))
    ELSE IF is_container_type(typ) THEN all_fixed_size(get_field_types(typ), 1)
    ELSE Raise("Exception")

\* sum(fixed_lengths + variable_lengths) < 2 ** (BYTES_PER_LENGTH_OFFSET * 8)
lengths_in_bounds(fixed_lengths, variable_lengths) ==
    BigLess(BigSum(fixed_lengths \o variable_lengths),
            BigPow2(BYTES_PER_LENGTH_OFFSET * 8))

\* the loop without "offset += len(serialized)"
RECURSIVE interleave_offset_not_advanced(_, _, _, _, _)
interleave_offset_not_advanced(parts, i, offset, fixed_parts, variable_parts) ==
    IF i > Len(parts) THEN Join(fixed_parts \o variable_parts)
    ELSE IF parts[i].constant_size
    THEN interleave_offset_not_advanced(parts, i + 1, offset,
             Append(fixed_parts, parts[i].serialized), variable_parts)
    ELSE interleave_offset_not_advanced(parts, i + 1, offset,
             Append(fixed_parts,
                    to_bytes(NatToBig(offset), BYTES_PER_LENGTH_OFFSET).val),
             Append(variable_parts, parts[i].serialized))

\* the loop with "fixed_parts = [serialized]" for "fixed_parts.append(serialized)"
RECURSIVE interleave_fixed_part_overwritten(_, _, _, _, _)
interleave_fixed_part_overwritten(parts, i, offset, fixed_parts, variable_parts) ==
    IF i > Len(parts) THEN Join(fixed_parts \o variable_parts)
    ELSE IF parts[i].constant_size
    THEN interleave_fixed_part_overwritten(parts, i + 1, offset,
             <<parts[i].serialized>>, variable_parts)
    ELSE interleave_fixed_part_overwritten(parts, i + 1,
             offset + Len(parts[i].serialized),
             Append(fixed_parts,
                    to_bytes(NatToBig(offset), BYTES_PER_LENGTH_OFFSET).val),
             Append(variable_parts, parts[i].serialized))

\* the loop interleaving offsets of variable-size parts with fixed-size parts
RECURSIVE interleave(_, _, _, _, _)
interleave(parts, i, offset, fixed_parts, variable_parts) ==
    IF i > Len(parts) THEN Join(fixed_parts \o variable_parts)
    ELSE IF parts[i].constant_size
    THEN interleave(parts, i + 1, offset,
                    Append(fixed_parts, parts[i].serialized), variable_parts)
    ELSE interleave(parts, i + 1, offset + Len(parts[i].serialized),
                    Append(fixed_parts,
                           to_bytes(NatToBig(offset), BYTES_PER_LENGTH_OFFSET).val),
                    Append(variable_parts, parts[i].serialized))

RECURSIVE serialize(_, _)
RECURSIVE encode_series(_, _)
\* parts[i] = (is_fixed_size(types[i]), serialize(values[i], typ=types[i]));
\* the first exception raised while building the list propagates
series_parts(values, types) ==
    LET n == Len(values)
        fx == [i \in 1..n |-> IF i <= Len(types) THEN is_fixed_size(types[i])
                              ELSE Raise("IndexError")]
        sr == [i \in 1..n |-> IF IsOk(fx[i]) THEN serialize(values[i], types[i])
                              ELSE fx[i]]
        bad == {i \in 1..n : ~IsOk(sr[i])}
    IN  IF bad # {}
        THEN Raise(sr[CHOOSE i \in bad : \A j \in bad : i <= j].err)
        ELSE Ok([i \in 1..n |->
                    [constant_size |-> fx[i].val, serialized |-> sr[i].val]])

encode_series(values, types) ==
    IF values.isbytes THEN Ok(values.xs)
    ELSE LET ps == series_parts(values.xs, types)
         IN  IF ~IsOk(ps) THEN ps
             ELSE LET parts == ps.val
                      fixed_lengths ==
                          [i \in 1..Len(parts) |->
                              IF parts[i].constant_size
                              THEN Len(parts[i].serialized)
                              ELSE BYTES_PER_LENGTH_OFFSET]
                      variable_lengths ==
                          [i \in 1..Len(parts) |->
                              IF ~parts[i].constant_size
                              THEN Len(parts[i].serialized)
                              ELSE 0]
                      big(ls) == [i \in 1..Len(ls) |-> NatToBig(ls[i])]
                      offset == Sum(fixed_lengths)
                  IN  IF ~lengths_in_bounds(big(fixed_lengths), big(variable_lengths))
                      THEN Raise("AssertionError")
                      ELSE Ok(interleave(parts, 1, offset, <<>>, <<>>))

\* serialize writing the byte length of a list before its elements
serialize_length_prefixed(obj, typ) ==
    IF is_basic_type(typ) THEN serialize_basic(obj, typ)
    ELSE IF is_list_kind(typ)
    THEN LET r == encode_series(obj, [i \in 1..Len(obj.xs) |-> read_elem_type(typ)])
         IN  IF IsOk(r)
             THEN Ok(to_bytes(NatToBig(Len(r.val)), BYTES_PER_LENGTH_OFFSET).val \o r.val)
             ELSE r
    ELSE IF is_vector_kind(typ)
    THEN encode_series(obj, [i \in 1..Len(obj.xs) |-> read_elem_type(typ)])
    ELSE IF is_container_type(typ)
    THEN encode_series(PyList(obj), get_field_types(typ))
    ELSE Raise("Exception")

serialize(obj, typ) ==
    IF is_basic_type(typ) THEN serialize_basic(obj, typ)
    ELSE IF is_list_kind(typ) \/ is_vector_kind(typ)
    THEN encode_series(obj, [i \in 1..Len(obj.xs) |-> read_elem_type(typ)])
    ELSE IF is_container_type(typ)
    THEN encode_series(PyList(obj), get_field_types(typ))
    ELSE Raise("Exception")

\* encode_series seen through len(): every serialized part is given by its
\* length alone, so that encodings of 2 ** 32 bytes and more can be stated.
\* series = [isbytes, size, parts], parts[i] = [constant_size, size].
encode_series_size(series) ==
    IF series.isbytes THEN Ok(series.size)
    ELSE LET parts == series.parts
             fixed_lengths ==
                 [i \in 1..Len(parts) |->
                     IF parts[i].constant_size THEN parts[i].size
                     ELSE NatToBig(BYTES_PER_LENGTH_OFFSET)]
             variable_lengths ==
                 [i \in 1..Len(parts) |->
                     IF ~parts[i].constant_size THEN parts[i].size ELSE <<>>]
         IN  IF ~lengths_in_bounds(fixed_lengths, variable_lengths)
             THEN Raise("AssertionError")
             ELSE Ok(BigSum(fixed_lengths \o variable_lengths))

(***************************************************************************)
(* hash and merkleize_chunks (eth2spec.utils.merkle_minimal)               *)
(***************************************************************************)
\* the digest bytes <<t, 0>> .. <<t, 31>> of one preimage, when x holds them
\* from position p on
IsDigestAt(x, p) ==
    /\ p + 31 <= Len(x)
    /\ x[p][1] # <<>>
    /\ \A j \in 0..31 : x[p + j] = <<x[p][1], j>>

\* the preimage with every whole digest in it folded into one item <<t, 32>>
RECURSIVE Fold(_, _)
Fold(x, p) ==
    IF p > Len(x) THEN <<>>
    ELSE IF IsDigestAt(x, p) THEN <<<<x[p][1], 32>>>> \o Fold(x, p + 32)
    ELSE <<x[p]>> \o Fold(x, p + 1)

\* hash(x): 32 bytes, each naming the preimage and its index in the digest
hash(x) ==
    LET t == <<Fold(x, 1)>>
    IN  [i \in 1..32 |-> <<t, i - 1>>]

ZERO_BYTES32 == [i \in 1..32 |-> Lit(0)]

is_power_of_two(value) ==
    value > 0 /\ \E k \in 0..value : 2 ^ k = value

RECURSIVE pad_to_power_of_two(_)
pad_to_power_of_two(tree) ==
    IF is_power_of_two(Len(tree)) THEN tree
    ELSE pad_to_power_of_two(Append(tree, ZERO_BYTES32))

RECURSIVE merkle_layers(_)
merkle_layers(layer) ==
    IF Len(layer) = 1 THEN layer[1]
    ELSE merkle_layers([i \in 1..(Len(layer) \div 2) |->
                            hash(layer[2 * i - 1] \o layer[2 * i])])

merkleize_chunks(chunks) == merkle_layers(pad_to_power_of_two(chunks))

(***************************************************************************)
(* SSZ Hash-tree-root                                                      *)
(***************************************************************************)
pack(values, subtype) ==
    IF values.isbytes THEN Ok(values.xs)
    ELSE LET sr == [i \in 1..Len(values.xs) |-> serialize_basic(values.xs[i], subtype)]
             bad == {i \in 1..Len(sr) : ~IsOk(sr[i])}
         IN  IF bad # {}
             THEN Raise(sr[CHOOSE i \in bad : \A j \in bad : i <= j].err)
             ELSE Ok(Join([i \in 1..Len(sr) |-> sr[i].val]))

\* chunkify padding by 32 - len(bytez) % 32: a whole zero chunk after aligned input
chunkify_pads_aligned_input(bytez) ==
    LET padded == bytez \o [i \in 1..(32 - (Len(bytez) % 32)) |-> Lit(0)]
    IN  [i \in 1..(Len(padded) \div 32) |-> SubSeq(padded, 32 * i - 31, 32 * i)]

chunkify(bytez) ==
    LET padded == bytez \o [i \in 1..((-Len(bytez)) % 32) |-> Lit(0)]
    IN  [i \in 1..(Len(padded) \div 32) |-> SubSeq(padded, 32 * i - 31, 32 * i)]

\* mix_in_length leaving the length out
mix_in_length_dropped(root, length) == root

mix_in_length(root, length) == hash(root \o to_bytes(NatToBig(length), 32).val)

is_bottom_layer_kind(typ) ==
    \/ is_basic_type(typ)
    \/ /\ is_list_kind(typ) \/ is_vector_kind(typ)
       /\ is_basic_type(read_elem_type(typ))

get_typed_values(obj, typ) ==
    IF is_container_type(typ)
    THEN Ok([i \in 1..Len(obj) |-> [value |-> obj[i], typ |-> get_field_types(typ)[i]]])
    ELSE IF is_list_kind(typ) \/ is_vector_kind(typ)
    THEN Ok([i \in 1..Len(obj.xs) |-> [value |-> obj.xs[i], typ |-> read_elem_type(typ)]])
    ELSE Raise("Exception")

RECURSIVE hash_tree_root(_, _)
\* [hash_tree_root(field_value, typ=field_typ) for field_value, field_typ in fields]
field_roots(fields) ==
    LET rs == [i \in 1..Len(fields) |-> hash_tree_root(fields[i].value, fields[i].typ)]
        bad == {i \in 1..Len(rs) : ~IsOk(rs[i])}
    IN  IF bad # {}
        THEN Raise(rs[CHOOSE i \in bad : \A j \in bad : i <= j].err)
        ELSE Ok([i \in 1..Len(rs) |-> rs[i].val])

hash_tree_root(obj, typ) ==
    LET leaves ==
            IF is_bottom_layer_kind(typ)
            THEN LET data == IF is_basic_type(typ) THEN serialize_basic(obj, typ)
                             ELSE pack(obj, read_elem_type(typ))
                 IN  IF IsOk(data) THEN Ok(chunkify(data.val)) ELSE data
            ELSE LET fields == get_typed_values(obj, typ)
                 IN  IF IsOk(fields) THEN field_roots(fields.val) ELSE fields
    IN  IF ~IsOk(leaves) THEN leaves
        ELSE IF is_list_kind(typ)
        THEN Ok(mix_in_length(merkleize_chunks(leaves.val), Len(obj.xs)))
        ELSE Ok(merkleize_chunks(leaves.val))

\* signing_root without the [:-1]
signing_root_all_fields(obj, typ) ==
    IF ~is_container_type(typ) THEN Raise("AssertionError")
    ELSE LET leaves == field_roots(get_typed_values(obj, typ).val)
         IN  IF ~IsOk(leaves) THEN leaves
             ELSE Ok(merkleize_chunks(chunkify(Join(leaves.val))))

signing_root(obj, typ) ==
    IF ~is_container_type(typ) THEN Raise("AssertionError")
    ELSE LET tv == get_typed_values(obj, typ).val
             leaves == field_roots(SubSeq(tv, 1, Len(tv) - 1))
         IN  IF ~IsOk(leaves) THEN leaves
             ELSE Ok(merkleize_chunks(chunkify(Join(leaves.val))))

(***************************************************************************)
(* Inputs                                                                  *)
(***************************************************************************)
\* longest list of basic elements given to a call
MaxListLen == 3

\* longest list nested in another value, and longest list of composite elements
MaxInnerLen == 2

\* longest vector and BytesN
MaxVecLen == 2

\* most fields of the containers enumerated
MaxFields == 2

\* longest byte string handed to deserialize_basic
MaxWire == 2

\* most parts of a series in the length view of encode_series
MaxParts == 2

SeqsUpTo(S, n) == UNION {[1..k -> S] : k \in 0..n}

uint8 == UintType(1)

uint16 == UintType(2)

BasicTypes == {uint8, uint16, BoolType}

FieldTypes == {uint8, uint16, ListType(uint8)}

SequenceTypes ==
    {ListType(e) : e \in BasicTypes}
        \cup {VectorType(e, n) : e \in BasicTypes, n \in 1..MaxVecLen}
        \cup {BytesType} \cup {BytesNType(n) : n \in 1..MaxVecLen}

ContainerTypes == {ContainerType(fs) : fs \in SeqsUpTo(FieldTypes, MaxFields)}

Inner == ContainerType(<<uint8, ListType(uint8)>>)

NestedTypes ==
    { ListType(ListType(uint8)),
      ListType(VectorType(uint8, 2)),
      VectorType(ListType(uint8), 2),
      ListType(Inner),
      ContainerType(<<uint16, Inner, ListType(uint8)>>),
      ContainerType(<<ListType(uint8), uint8, ListType(uint16)>>),
      ContainerType(<<uint8, uint8, uint16>>),
      ContainerType(<<ListType(uint8), ListType(uint8), uint8>>),
      ContainerType(<<BytesType, BoolType, BytesNType(2)>>),
      ContainerType(<<VectorType(uint8, 2), VectorType(uint16, 1), BoolType>>) }

Types == BasicTypes \cup SequenceTypes \cup ContainerTypes \cup NestedTypes
            \cup {OtherType}

\* the valid values of a type enumerated at nesting depth d
RECURSIVE Values(_, _)
RECURSIVE FieldValues(_, _)
FieldValues(types, d) ==
    IF types = <<>> THEN {<<>>}
    ELSE {<<v>> \o rest : v \in Values(Head(types), d),
                          rest \in FieldValues(Tail(types), d)}

Values(typ, d) ==
    LET bound == IF d = 0 /\ is_basic_type(read_elem_type(typ))
                 THEN MaxListLen ELSE MaxInnerLen
    IN  CASE typ.kind = "uint" ->
                IF d >= 2 THEN {NatToBig(1)}
                ELSE IF typ.size = 1 THEN {NatToBig(0), NatToBig(1)}
                ELSE {NatToBig(1), NatToBig(257)}
          [] typ.kind = "bool" -> BOOLEAN
          [] typ.kind = "list" ->
                {PyList(s) : s \in SeqsUpTo(Values(read_elem_type(typ), d + 1), bound)}
          [] typ.kind = "vector" ->
                {PyList(s) : s \in [1..typ.size -> Values(read_elem_type(typ), d + 1)]}
          [] typ.kind = "bytes" ->
                {PyBytes(LitBytes(s)) : s \in SeqsUpTo({0, 1}, bound)}
          [] typ.kind = "bytesN" ->
                {PyBytes(LitBytes(s)) : s \in [1..typ.size -> {0, 1}]}
          [] typ.kind = "container" -> FieldValues(typ.sub, d + 1)
          [] OTHER -> {<<>>}

Typed(typ, obj) == [typ |-> typ, obj |-> obj]

TypedValues == UNION {{Typed(t, v) : v \in Values(t, 0)} : t \in Types}

\* the values of the specification's examples
Examples ==
    LET n(k) == NatToBig(k)
        l8(s) == PyList([i \in 1..Len(s) |-> n(s[i])])
        ab == ContainerType(<<uint8, ListType(uint8)>>)
    IN  { <<Typed(ab, <<n(5), l8(<<1, 2, 3>>)>>), Typed(ab, <<n(5), l8(<<1, 2, 3>>)>>)>>,
          <<Typed(ListType(uint8), l8(<<1, 2, 3>>)),
            Typed(ListType(uint8), l8(<<1, 2, 3, 0>>))>>,
          <<Typed(ab, <<n(5), l8(<<1, 2, 3>>)>>), Typed(ab, <<n(5), l8(<<>>)>>)>> }

IsPrefix(s, t) == Len(s) <= Len(t) /\ SubSeq(t, 1, Len(s)) = s

Swap(s, i, j) == [s EXCEPT ![i] = s[j], ![j] = s[i]]

\* the second value of a pair of calls: the same value; a longer list with the
\* first as its prefix; the container with another last field; the container
\* with two fields exchanged; another value of the same type
Related(a) ==
    {a}
    \cup (IF is_list_kind(a.typ)
          THEN {Typed(a.typ, v) : v \in {w \in Values(a.typ, 0) :
                    Len(w.xs) > Len(a.obj.xs) /\ IsPrefix(a.obj.xs, w.xs)}}
          ELSE {})
    \cup (IF is_container_type(a.typ) /\ Len(a.typ.sub) >= 1
          THEN LET n == Len(a.typ.sub)
               IN  {Typed(a.typ, [a.obj EXCEPT ![n] = v]) :
                        v \in Values(a.typ.sub[n], 1)}
                   \cup {Typed(ContainerType(Swap(a.typ.sub, i, j)), Swap(a.obj, i, j)) :
                            i \in 1..n, j \in 1..n}
          ELSE {})
    \cup (IF a.typ.kind # "other" /\ is_fixed_size(a.typ).val
          THEN {Typed(a.typ, v) : v \in Values(a.typ, 0)}
          ELSE {})

Pairs == UNION {{<<a, b>> : b \in Related(a)} : a \in TypedValues} \cup Examples

(***************************************************************************)
(* Calls of the public functions on a pair of related values               *)
(***************************************************************************)
none == <<>>

Init ==
    /\ op = "init"
    /\ inp \in Pairs
    /\ out = none
    /\ wire = none
    /\ dec = none

IsFixedSize ==
    /\ op = "init"
    /\ op' = "is_fixed_size"
    /\ out' = [k \in 1..2 |-> is_fixed_size(inp[k].typ)]
    /\ UNCHANGED <<inp, wire, dec>>

Serialize ==
    /\ op = "init"
    /\ op' = "serialize"
    /\ out' = [k \in 1..2 |-> serialize(inp[k].obj, inp[k].typ)]
    /\ UNCHANGED <<inp, wire, dec>>

HashTreeRoot ==
    /\ op = "init"
    /\ op' = "hash_tree_root"
    /\ out' = [k \in 1..2 |-> hash_tree_root(inp[k].obj, inp[k].typ)]
    /\ UNCHANGED <<inp, wire, dec>>

SigningRoot ==
    /\ op = "init"
    /\ op' = "signing_root"
    /\ out' = [k \in 1..2 |-> signing_root(inp[k].obj, inp[k].typ)]
    /\ UNCHANGED <<inp, wire, dec>>

Next == IsFixedSize \/ Serialize \/ HashTreeRoot \/ SigningRoot

Spec == Init /\ [][Next]_vars

(***************************************************************************)
(* The basic-value codec: a value is encoded and decoded again, or bytes   *)
(* received from elsewhere are decoded                                     *)
(***************************************************************************)
UintWidths == {1, 2, 4, 8, 16, 32}

AllBasicTypes == {UintType(n) : n \in UintWidths} \cup {BoolType}

\* 0, 2 ** (8 * size) - 1, and every value with one non-zero limb
UintValues(size) ==
    IF size = 1 THEN {NatToBig(n) : n \in 0..255}
    ELSE LET limbs == size \div 2
         IN  {<<>>, [i \in 1..limbs |-> LimbBase - 1]}
                 \cup {BigNorm([i \in 1..limbs |-> IF i = k THEN v ELSE 0]) :
                          k \in 1..limbs, v \in {1, 255, 256, 258, 32768, LimbBase - 1}}

BasicValues(typ) == IF is_bool_type(typ) THEN BOOLEAN ELSE UintValues(typ.size)

WireInputs == {LitBytes(s) : s \in SeqsUpTo({0, 1, 2, 255}, MaxWire)}

InitBasic ==
    /\ out = none
    /\ dec = none
    /\ \/ /\ op = "init"
          /\ wire = none
          /\ inp \in UNION {{Typed(t, v) : v \in BasicValues(t)} : t \in AllBasicTypes}
       \/ /\ op = "received"
          /\ wire \in {Ok(bs) : bs \in WireInputs}
          /\ inp \in {Typed(t, none) : t \in AllBasicTypes}

SerializeBasic ==
    /\ op = "init"
    /\ op' = "serialize_basic"
    /\ wire' = serialize_basic(inp.obj, inp.typ)
    /\ UNCHANGED <<inp, out, dec>>

DeserializeBasic ==
    /\ op \in {"serialize_basic", "received"}
    /\ IsOk(wire)
    /\ op' = IF op = "received" THEN "deserialize_basic" ELSE "round_trip"
    /\ dec' = deserialize_basic(wire.val, inp.typ)
    /\ UNCHANGED <<inp, out, wire>>

NextBasic == SerializeBasic \/ DeserializeBasic

SpecBasic == InitBasic /\ [][NextBasic]_vars

(***************************************************************************)
(* encode_series by lengths                                                *)
(***************************************************************************)
\* lengths around 2 ** 32
Sizes ==
    { <<>>, <<1>>, <<4>>, <<0, 32768>>,
      <<LimbBase - 5, LimbBase - 1>>, <<LimbBase - 4, LimbBase - 1>>,
      <<LimbBase - 1, LimbBase - 1>>, <<0, 0, 1>>, <<1, 0, 1>> }

Series ==
    {[isbytes |-> TRUE, size |-> n, parts |-> <<>>] : n \in Sizes}
        \cup {[isbytes |-> FALSE, size |-> NatToBig(Len(ps)), parts |-> ps] :
                 ps \in SeqsUpTo([constant_size : BOOLEAN, size : Sizes], MaxParts)}

InitSize ==
    /\ op = "init"
    /\ inp \in Series
    /\ out = none
    /\ wire = none
    /\ dec = none

EncodeSeriesSize ==
    /\ op = "init"
    /\ op' = "encode_series"
    /\ out' = encode_series_size(inp)
    /\ UNCHANGED <<inp, wire, dec>>

NextSize == EncodeSeriesSize

SpecSize == InitSize /\ [][NextSize]_vars

(***************************************************************************)
(* Properties                                                              *)
(***************************************************************************)
SameValue(a, b) == a.typ = b.typ /\ a.obj = b.obj

IsSeries(typ) == typ.kind \in {"list", "vector", "container"}

\* the (value, type) pairs a composite value hands to encode_series
Elements(a) ==
    IF is_container_type(a.typ)
    THEN [i \in 1..Len(a.obj) |-> Typed(a.typ.sub[i], a.obj[i])]
    ELSE [i \in 1..Len(a.obj.xs) |-> Typed(read_elem_type(a.typ), a.obj.xs[i])]

\* basic types; vectors of a fixed-size element type; containers of fixed-size
\* field types; never lists
RECURSIVE FixedByStructure(_)
FixedByStructure(typ) ==
    CASE typ.kind \in {"uint", "bool"} -> TRUE
      [] typ.kind \in {"vector", "bytesN"} -> FixedByStructure(typ.sub[1])
      [] typ.kind = "container" ->
            \A i \in 1..Len(typ.sub) : FixedByStructure(typ.sub[i])
      [] OTHER -> FALSE

\* the bytes an element occupies in the fixed-size prefix
PrefixLen(e) ==
    IF FixedByStructure(e.typ) THEN Len(serialize(e.obj, e.typ).val)
    ELSE 4

\* the unsigned value of four concrete bytes read as a little-endian word
Word(bs, p) ==
    bs[p + 1][2] + 256 * bs[p + 2][2] + 65536 * bs[p + 3][2] + 16777216 * bs[p + 4][2]

ExampleValue ==
    Typed(ContainerType(<<uint8, ListType(uint8)>>),
          <<NatToBig(5), PyList(<<NatToBig(1), NatToBig(2), NatToBig(3)>>)>>)

OffsetsPointAtPayloads(a, bytes) ==
    LET es == Elements(a)
        prefix == Sum([i \in 1..Len(es) |-> PrefixLen(es[i])])
        variable == {i \in 1..Len(es) : ~FixedByStructure(es[i].typ)}
    IN  \A i \in variable :
            LET at == Sum([j \in 1..(i - 1) |-> PrefixLen(es[j])])
                payload == serialize(es[i].obj, es[i].typ).val
                start == Word(bytes, at)
            IN  /\ at + 4 <= prefix
                /\ \A j \in 1..4 : bytes[at + j][1] = <<>>
                /\ prefix <= start
                /\ start + Len(payload) <= Len(bytes)
                /\ SubSeq(bytes, start + 1, start + Len(payload)) = payload
                /\ (\A j \in variable : i <= j) => start = prefix

\* C1: in the encoding of a series, the 4-byte little-endian offset written at
\* the place of each variable-size element is the index in the output at which
\* that element's serialization begins, the first offset is the length of the
\* fixed-size prefix, and {a: uint8 = 5, b: List[uint8] = [1,2,3]} encodes to
\* 05 05000000 010203.
C1_OffsetCorrectness ==
    op = "serialize" =>
        \A k \in 1..2 :
            /\ IsSeries(inp[k].typ) => /\ IsOk(out[k])
                                       /\ OffsetsPointAtPayloads(inp[k], out[k].val)
            /\ SameValue(inp[k], ExampleValue) =>
                   out[k] = Ok(LitBytes(<<5, 5, 0, 0, 0, 1, 2, 3>>))

C1_Witness ==
    /\ op = "serialize"
    /\ SameValue(inp[1], ExampleValue)
    /\ out[1].val = LitBytes(<<5, 5, 0, 0, 0, 1, 2, 3>>)

\* two values of one container type of at least 2 fields that differ in the
\* last field only
DifferInLastFieldOnly(a, b) ==
    /\ is_container_type(a.typ)
    /\ a.typ = b.typ
    /\ Len(a.typ.sub) >= 2
    /\ \A i \in 1..(Len(a.obj) - 1) : a.obj[i] = b.obj[i]
    /\ a.obj[Len(a.obj)] # b.obj[Len(b.obj)]

\* C3: for two values of a container type of at least 2 fields that differ only
\* in the last field, signing_root is the same digest and hash_tree_root is not.
C3_SigningRootExclusion ==
    DifferInLastFieldOnly(inp[1], inp[2]) =>
        /\ op = "signing_root" => IsOk(out[1]) /\ out[1] = out[2]
        /\ op = "hash_tree_root" =>
               IsOk(out[1]) /\ IsOk(out[2]) /\ out[1].val # out[2].val

C3_Witness ==
    /\ op = "signing_root"
    /\ DifferInLastFieldOnly(inp[1], inp[2])
    /\ Len(inp[1].typ.sub) = 3
    /\ IsOk(out[1])
    /\ hash_tree_root(inp[1].obj, inp[1].typ) # hash_tree_root(inp[2].obj, inp[2].typ)

\* two values of one list type, the first a proper prefix of the second
ProperPrefixLists(a, b) ==
    /\ is_list_kind(a.typ)
    /\ a.typ = b.typ
    /\ Len(a.obj.xs) < Len(b.obj.xs)
    /\ IsPrefix(a.obj.xs, b.obj.xs)

ListOf8(s) == Typed(ListType(uint8), PyList([i \in 1..Len(s) |-> NatToBig(s[i])]))

\* C4: two list values of different lengths, the shorter a prefix of the longer,
\* have different hash_tree_root digests (also when the extra elements are
\* zeros that fall into the same zero-padded chunk).
C4_LengthMixedIn ==
    op = "hash_tree_root" /\ ProperPrefixLists(inp[1], inp[2]) =>
        IsOk(out[1]) /\ IsOk(out[2]) /\ out[1].val # out[2].val

C4_Witness ==
    /\ op = "hash_tree_root"
    /\ SameValue(inp[1], ListOf8(<<1, 2, 3>>))
    /\ SameValue(inp[2], ListOf8(<<1, 2, 3, 0>>))
    /\ chunkify(pack(inp[1].obj, uint8).val) = chunkify(pack(inp[2].obj, uint8).val)
    /\ out[1].val # out[2].val

\* C5 as stated: for every list type, of fixed-size or variable-size elements,
\* the encoding of the shorter list is the leading part of the encoding of the
\* longer one.
C5_SharedPrefixAnyElement ==
    op = "serialize" /\ ProperPrefixLists(inp[1], inp[2]) =>
        IsOk(out[1]) /\ IsOk(out[2]) /\ IsPrefix(out[1].val, out[2].val)

\* C5 amended: for every list type whose element type is fixed-size, the
\* encoding of the shorter list is the leading part of the encoding of the
\* longer one.
C5_SharedPrefixFixedElement ==
    /\ op = "serialize"
    /\ ProperPrefixLists(inp[1], inp[2])
    /\ FixedByStructure(read_elem_type(inp[1].typ))
    => IsOk(out[1]) /\ IsOk(out[2]) /\ IsPrefix(out[1].val, out[2].val)

C5_Witness ==
    /\ op = "serialize"
    /\ ProperPrefixLists(inp[1], inp[2])
    /\ inp[1].typ = ListType(uint16)
    /\ Len(inp[1].obj.xs) = 2
    /\ Len(out[1].val) = 4
    /\ IsPrefix(out[1].val, out[2].val)

\* the length an encoding would have: that of the byte string, or the sum of
\* the lengths of the parts with 4 bytes for every offset
WouldBeLength(series) ==
    IF series.isbytes THEN series.size
    ELSE BigSum([i \in 1..Len(series.parts) |->
                    IF series.parts[i].constant_size THEN series.parts[i].size
                    ELSE BigAdd(series.parts[i].size, <<4>>)])

\* C2: every byte string encode_series returns is shorter than 2 ** 32 bytes,
\* and whenever the encoding would be 2 ** 32 bytes or longer the call fails,
\* also for a value given as an already-encoded byte string.
C2_EncodedLengthBelowLimit ==
    op = "encode_series" =>
        /\ IsOk(out) => BigLess(out.val, BigPow2(32))
        /\ ~BigLess(WouldBeLength(inp), BigPow2(32)) => out.err = "AssertionError"

RECURSIVE BigTimes256From(_, _, _)
BigTimes256From(a, i, carry) ==
    IF i > Len(a) THEN (IF carry = 0 THEN <<>> ELSE <<carry>>)
    ELSE LET p == a[i] * 256 + carry
         IN  <<p % LimbBase>> \o BigTimes256From(a, i + 1, p \div LimbBase)

\* the number sum(bs[i] * 256 ** i), summed from the last byte down
RECURSIVE Horner(_, _, _)
Horner(bs, i, acc) ==
    IF i = 0 THEN acc
    ELSE IF acc = <<>> THEN Horner(bs, i - 1, NatToBig(bs[i][2]))
    ELSE Horner(bs, i - 1,
                BigAdd(NatToBig(bs[i][2]), BigNorm(BigTimes256From(acc, 1, 0))))

LittleEndianValue(bs) == Horner(bs, Len(bs), <<>>)

\* C6: serialize_basic emits N/8 bytes, little-endian, for a uintN and one byte
\* (01 for true, 00 for false) for a bool, and deserialize_basic gives the value
\* back.
C6_BasicRoundTrip ==
    /\ op \in {"serialize_basic", "round_trip"} =>
           /\ IsOk(wire)
           /\ is_uint_type(inp.typ) =>
                  /\ inp.typ.size \in UintWidths
                  /\ Len(wire.val) = inp.typ.size
                  /\ \A i \in 1..Len(wire.val) :
                         wire.val[i][1] = <<>> /\ wire.val[i][2] \in 0..255
                  /\ LittleEndianValue(wire.val) = inp.obj
           /\ is_bool_type(inp.typ) =>
                  wire.val = <<Lit(IF inp.obj THEN 1 ELSE 0)>>
    /\ op = "round_trip" => dec = Ok(inp.obj)

C6_Witness ==
    /\ op = "round_trip"
    /\ inp.typ = UintType(32)
    /\ inp.obj = [i \in 1..16 |-> LimbBase - 1]
    /\ wire.val = LitBytes([i \in 1..32 |-> 255])
    /\ dec.val = inp.obj

\* C8: deserialize_basic of a bool returns true for exactly the byte string 01,
\* false for exactly 00, and fails for every other input.
C8_MalformedBool ==
    op = "deserialize_basic" /\ is_bool_type(inp.typ) =>
        /\ wire.val = <<Lit(1)>> => dec = Ok(TRUE)
        /\ wire.val = <<Lit(0)>> => dec = Ok(FALSE)
        /\ wire.val \notin {<<Lit(0)>>, <<Lit(1)>>} => dec.err = "AssertionError"

C8_Witness ==
    /\ op = "deserialize_basic"
    /\ is_bool_type(inp.typ)
    /\ wire.val = <<Lit(2)>>
    /\ dec.err = "AssertionError"

\* the bytes of the basic values of a fixed-size value, in order, with
\* nothing between them
RECURSIVE Flat(_)
Flat(a) ==
    IF is_basic_type(a.typ) THEN serialize_basic(a.obj, a.typ).val
    ELSE IF a.typ.kind = "bytesN" THEN a.obj.xs
    ELSE LET es == Elements(a)
         IN  Join([i \in 1..Len(es) |-> Flat(es[i])])

\* the byte length a fixed-size type determines
RECURSIVE StaticSize(_)
StaticSize(typ) ==
    CASE typ.kind = "uint" -> typ.size
      [] typ.kind = "bool" -> 1
      [] typ.kind \in {"vector", "bytesN"} -> typ.size * StaticSize(typ.sub[1])
      [] typ.kind = "container" ->
            Sum([i \in 1..Len(typ.sub) |-> StaticSize(typ.sub[i])])

\* C7: is_fixed_size holds of basic types, of vectors of a fixed-size element
\* type and of containers of fixed-size field types, and never of lists; the
\* encoding of a value of such a type holds no offset words and has the same
\* length for every value of the type.
C7_FixedSizeConstantLength ==
    /\ op = "is_fixed_size" =>
           \A k \in 1..2 : inp[k].typ # OtherType =>
                               out[k] = Ok(FixedByStructure(inp[k].typ))
    /\ op = "serialize" =>
           /\ \A k \in 1..2 : FixedByStructure(inp[k].typ) =>
                  /\ IsOk(out[k])
                  /\ out[k].val = Flat(inp[k])
                  /\ Len(out[k].val) = StaticSize(inp[k].typ)
           /\ FixedByStructure(inp[1].typ) /\ inp[1].typ = inp[2].typ =>
                  Len(out[1].val) = Len(out[2].val)

C7_Witness ==
    /\ op = "serialize"
    /\ inp[1].typ = ContainerType(<<VectorType(uint8, 2), VectorType(uint16, 1), BoolType>>)
    /\ inp[2].typ = inp[1].typ
    /\ inp[1].obj # inp[2].obj
    /\ Len(out[1].val) = 5
    /\ Len(out[2].val) = 5

\* b is a with its fields i and j, types and values, exchanged
Exchanged(a, b, i, j) ==
    /\ is_container_type(a.typ)
    /\ is_container_type(b.typ)
    /\ i < j
    /\ j <= Len(a.typ.sub)
    /\ b.typ.sub = Swap(a.typ.sub, i, j)
    /\ b.obj = Swap(a.obj, i, j)

\* fields i and j of a differ in type or in value, so that exchanging them
\* gives another sequence of fields
FieldsDiffer(a, i, j) ==
    a.typ.sub[i] # a.typ.sub[j] \/ a.obj[i] # a.obj[j]

\* C9 as stated: reordering the fields of any container value (here: exchanging
\* two fields that differ in type or value) changes both its serialization and
\* its hash_tree_root.
C9_AnyReorderingChangesBoth ==
    (\E i, j \in 1..Len(inp[1].typ.sub) :
        Exchanged(inp[1], inp[2], i, j) /\ FieldsDiffer(inp[1], i, j)) =>
        /\ op = "serialize" => out[1].val # out[2].val
        /\ op = "hash_tree_root" => out[1].val # out[2].val

\* fields i and j of a have one type and different values
SameTypeOtherValue(a, i, j) ==
    a.typ.sub[i] = a.typ.sub[j] /\ a.obj[i] # a.obj[j]

\* C9 amended: exchanging two fields of the same type that hold different
\* values changes both the serialization and the hash_tree_root of a container
\* value.
C9_ExchangeOfDistinctFieldsChangesBoth ==
    (\E i, j \in 1..Len(inp[1].typ.sub) :
        Exchanged(inp[1], inp[2], i, j) /\ SameTypeOtherValue(inp[1], i, j)) =>
        /\ op = "serialize" =>
               IsOk(out[1]) /\ IsOk(out[2]) /\ out[1].val # out[2].val
        /\ op = "hash_tree_root" =>
               IsOk(out[1]) /\ IsOk(out[2]) /\ out[1].val # out[2].val

C9_Witness ==
    /\ op = "hash_tree_root"
    /\ inp[1].typ = ContainerType(<<ListType(uint8), ListType(uint8), uint8>>)
    /\ Exchanged(inp[1], inp[2], 1, 2)
    /\ SameTypeOtherValue(inp[1], 1, 2)
    /\ out[1].val # out[2].val

\* the digests of all fields of a container value but the last
LeadingRoots(a) ==
    [i \in 1..(Len(a.obj) - 1) |-> hash_tree_root(a.obj[i], a.typ.sub[i]).val]

\* the container value made of all fields but the last
WithoutLast(a) ==
    Typed(ContainerType(SubSeq(a.typ.sub, 1, Len(a.typ.sub) - 1)),
          SubSeq(a.obj, 1, Len(a.obj) - 1))

\* C10: signing_root of a container value is merkleize_chunks of the digests of
\* all fields but the last, which chunkify gives back unchanged from their
\* concatenation, and it is the hash_tree_root of the container made of those
\* fields.
C10_SigningRootIsRootOfLeadingFields ==
    op = "signing_root" =>
        \A k \in 1..2 : is_container_type(inp[k].typ) =>
            /\ IsOk(out[k])
            /\ \A i \in 1..Len(LeadingRoots(inp[k])) : Len(LeadingRoots(inp[k])[i]) = 32
            /\ chunkify(Join(LeadingRoots(inp[k]))) = LeadingRoots(inp[k])
            /\ out[k].val = merkleize_chunks(LeadingRoots(inp[k]))
            /\ out[k] = hash_tree_root(WithoutLast(inp[k]).obj, WithoutLast(inp[k]).typ)

C10_Witness ==
    /\ op = "signing_root"
    /\ inp[1].typ = ContainerType(<<uint16, Inner, ListType(uint8)>>)
    /\ Len(LeadingRoots(inp[1])) = 2
    /\ out[1].val = merkleize_chunks(LeadingRoots(inp[1]))

====
